---- MODULE Spec2Model ----
(***************************************************************************)
(* Model of src/library.js: class Library, the registry of archives that   *)
(* keeps a persisted index (node-persist, keyed by URL), a cache of open   *)
(* archive objects keyed by address (this.archives), a last-use map        *)
(* (this.archiveUsage) and talks to the archive engine (this.node).        *)
(*                                                                         *)
(* Every async method is cut at its awaits: one action per continuation.   *)
(* An await on a collaborator (name resolution, engine, store) is modelled *)
(* by the step that runs when it settles, with both outcomes.              *)
(***************************************************************************)
EXTENDS Integers, FiniteSets, TLC

\* ---------------------------------------------------------------- bounds
\* Registry API calls issued in one run.
MaxCalls == 2
\* Largest value Date.now() takes.
MaxClock == 1
\* Registry API calls issued in one run by callers that do not await init().
MaxEarly == 1

\* ------------------------------------------------------ values and names
\* Address (hex key) of an archive this process owns: it opens writable.
A1 == "a1"
\* Address of an archive this process does not own: it opens read-only.
A2 == "a2"
\* The Map key JavaScript's `undefined` makes.
Undefined == "undefined"
\* No address: a rejected resolution, a field not yet set.
NoAddr == "none"
\* A DNS name that resolves to A1, and a name that no longer resolves.
AliasUrl == "dat://alias.example"
BadUrl == "dat://gone.example"

\* Keys the engine hands out, in order, to created and forked archives.
NewKeys == <<"k1", "k2", "k3", "k4", "k5">>
Addresses == {A1, A2}

UrlTable == {<<"a1", "dat://a1">>, <<"a2", "dat://a2">>, <<"k1", "dat://k1">>,
             <<"k2", "dat://k2">>, <<"k3", "dat://k3">>, <<"k4", "dat://k4">>,
             <<"k5", "dat://k5">>}
\* archive.url of the archive with key a: "dat://<a>".
DatUrl(a) == (CHOOSE p \in UrlTable : p[1] = a)[2]

\* URLs the environment passes to the API and finds in an old index.
KnownUrls == {DatUrl(A1), AliasUrl, BadUrl}

\* The keys of the index an earlier run left: none, one dead name, all three.
OldIndexes == {{}, {BadUrl}, KnownUrls}

\* dns.resolveName(url): the address string, or a rejection (NoAddr).
resolveName(u) ==
    IF u = AliasUrl THEN A1
    ELSE IF \E p \in UrlTable : p[2] = u
         THEN (CHOOSE p \in UrlTable : p[2] = u)[1]
         ELSE NoAddr

\* dat.drive.writable / info.isOwner of the archive with key a.
writable(a) == a # A2

VARIABLES
    initPc,        \* where init() is
    library,       \* init's `library`: the url fields of the records it read
    tasks,         \* init's checkOwned / loadLibrary promises, by item
    storageReady,  \* storage.init() has completed
    index,         \* node-persist store: key -> record
    archives,      \* this.archives
    archiveUsage,  \* this.archiveUsage
    dats,          \* this.node.dats: address -> dat
    closed,        \* dats on which close() was called
    datDirExists,  \* this.datDir exists on disk
    onDisk,        \* the entries of this.datDir
    calls,         \* API calls in flight: id -> frame
    issued,        \* number of API calls issued
    ret,           \* the API call that settled last
    updates,       \* updateLibraryEntry promise chains: archive id -> state
    now,           \* Date.now()
    nextDat,       \* id of the next dat the engine makes
    nextArchive,   \* id of the next archive object
    nextKey        \* key of the next created archive

vars == <<initPc, library, tasks, storageReady, index, archives, archiveUsage,
          dats, closed, datDirExists, onDisk, calls, issued, ret,
          updates, now, nextDat, nextArchive, nextKey>>

initVars == <<initPc, library, tasks, storageReady>>
libVars == <<archives, archiveUsage>>
engineVars == <<dats, closed, nextDat, nextKey>>
callVars == <<calls, issued, ret>>

\* ------------------------------------------------------------- helpers
Put(f, k, v) == [x \in DOMAIN f \cup {k} |-> IF x = k THEN v ELSE f[x]]
Del(f, k) == [x \in DOMAIN f \ {k} |-> f[x]]
Has(f, k) == k \in DOMAIN f
Empty == [x \in {} |-> 0]

\* An entry whose directory does not name the archive's key.
LibraryEntryWithoutKey(archive) ==
    [dir |-> <<"dat1", NoAddr>>,
     url |-> DatUrl(archive.key),
     owner |-> writable(archive.key)]

\* The record updateLibraryEntry stores for an archive.
LibraryEntry(archive) ==
    [dir |-> <<"dat1", archive.key>>,
     url |-> DatUrl(archive.key),
     owner |-> writable(archive.key)]

\* A record an earlier run left in the index under url u.
OldEntry(u) ==
    [dir |-> <<"dat1", resolveName(u)>>, url |-> u, owner |-> TRUE]

\* createDatArchive(dat.drive): a new archive object around dat d of address a.
NewArchive(n, a, d) == [id |-> n, key |-> a, dat |-> d]

\* storage.values()
listLibrary == {index[k] : k \in DOMAIN index}

\* getOpenArchives() over the given maps; a lastUsed of -1 is `undefined`.
OpenArchives(arch, usage) ==
    {[host |-> h, url |-> DatUrl(arch[h].key),
      lastUsed |-> IF Has(usage, h) THEN usage[h] ELSE -1] : h \in DOMAIN arch}
getOpenArchives == OpenArchives(archives, archiveUsage)

\* What a settled call leaves in `ret`: its outcome, and what its caller saw.
\* had: close found the address in this.archives. again: the call settled
\* just before was a close of the same address that found it there.
NoRet == [op |-> "none", url |-> NoAddr, host |-> NoAddr, ok |-> FALSE,
          err |-> "none", archive |-> 0, used |-> -1, rec |-> {}, out |-> NoAddr,
          had |-> FALSE, again |-> FALSE, prevArchive |-> 0, prevUsed |-> -1]

Init ==
    /\ initPc = "unstarted"
    /\ library = {}
    /\ tasks = Empty
    /\ storageReady = FALSE
    /\ \E old \in OldIndexes : index = [u \in old |-> OldEntry(u)]
    /\ archives = Empty
    /\ archiveUsage = Empty
    /\ dats = Empty
    /\ closed = {}
    /\ onDisk \in SUBSET Addresses
    /\ datDirExists \in BOOLEAN
    /\ onDisk # {} => datDirExists
    \* with records in the index init never reads the directory
    /\ DOMAIN index # {} => (onDisk = {A1} /\ datDirExists)
    /\ calls = Empty
    /\ issued = 0
    /\ ret = NoRet
    /\ updates = Empty
    /\ now = 0
    /\ nextDat = 1
    /\ nextArchive = 1
    /\ nextKey = 1

\* ------------------------------------------------------------ the engine
\* node.getDat(a): the dat the engine has for a, else a new one.
DatFor(a) == IF Has(dats, a) THEN dats[a] ELSE nextDat

\* node.getDat(a) resolves: the dat is in node.dats.
GetDatOk(a) ==
    /\ dats' = Put(dats, a, DatFor(a))
    /\ nextDat' = IF Has(dats, a) THEN nextDat ELSE nextDat + 1

\* node.getDat(a) rejects.
GetDatFail(a) ==
    UNCHANGED <<dats, nextDat>>

\* dat.close() on dat d of address a: the engine drops it from node.dats.
DatClose(a, d) ==
    /\ closed' = closed \cup {d}
    /\ dats' = IF Has(dats, a) /\ dats[a] = d THEN Del(dats, a) ELSE dats

\* updateLibraryEntry(archive): starts archive.getInfo(), returns at once.
updateLibraryEntry(archive) ==
    updates' = Put(updates, archive.id, [archive |-> archive, pc |-> "info"])

\* ---------------------------------------------------------------- init()
\* The state of one checkOwned / loadLibrary promise: where it is, its
\* `address`, `dat` and `archive` locals, and whether it threw.
NewTask(p) == [pc |-> p, host |-> NoAddr, dat |-> 0, archive |-> 0, failed |-> FALSE]
SetTask(k, t) == tasks' = [tasks EXCEPT ![k] = t]

\* init() up to `await migrate(...)`: the library directory is made.
InitStart ==
    /\ initPc = "unstarted"
    /\ initPc' = "migrate"
    /\ UNCHANGED <<library, tasks, storageReady, index, libVars, engineVars,
                   datDirExists, onDisk, callVars, updates, now, nextArchive>>

\* migrate settles; on success storage.init is called.
InitMigrate ==
    /\ initPc = "migrate"
    /\ initPc' \in {"storageInit", "failed"}
    /\ UNCHANGED <<library, tasks, storageReady, index, libVars, engineVars,
                   datDirExists, onDisk, callVars, updates, now, nextArchive>>

\* storage.init settles; on success this.ready is set and listLibrary called.
InitStorage ==
    /\ initPc = "storageInit"
    /\ \/ initPc' = "list" /\ storageReady' = TRUE
       \/ initPc' = "failed" /\ UNCHANGED storageReady
    /\ UNCHANGED <<library, tasks, index, libVars, engineVars,
                   datDirExists, onDisk, callVars, updates, now, nextArchive>>

\* `library = await this.listLibrary()`; with records, loadLibrary starts one
\* promise per record (each at its resolveName); without, readdir is called.
InitList ==
    /\ initPc = "list"
    /\ library' = {r.url : r \in listLibrary}
    /\ IF listLibrary = {}
       THEN initPc' = "readdir" /\ UNCHANGED tasks
       ELSE /\ initPc' = "load"
            /\ tasks' = [u \in {r.url : r \in listLibrary} |-> NewTask("resolve")]
    /\ UNCHANGED <<storageReady, index, libVars, engineVars,
                   datDirExists, onDisk, callVars, updates, now, nextArchive>>

\* fs.readdir(this.datDir) settles: it rejects when the directory is missing
\* (init fails); else checkOwned starts one promise per entry, at its getDat.
InitReaddir ==
    /\ initPc = "readdir"
    /\ IF datDirExists
       THEN initPc' = "scan" /\ tasks' = [a \in onDisk |-> NewTask("open")]
       ELSE initPc' = "failed" /\ UNCHANGED tasks
    /\ UNCHANGED <<library, storageReady, index, libVars, engineVars,
                   datDirExists, onDisk, callVars, updates, now, nextArchive>>

\* checkOwned, `await this.node.getDat(address)` settles.
ScanOpen(a) ==
    /\ initPc = "scan" /\ Has(tasks, a) /\ tasks[a].pc = "open"
    /\ \/ /\ GetDatOk(a)
          /\ SetTask(a, [tasks[a] EXCEPT !.pc = "ready", !.host = a, !.dat = DatFor(a)])
       \/ /\ GetDatFail(a)
          /\ SetTask(a, [tasks[a] EXCEPT !.pc = "done", !.failed = TRUE])
    /\ UNCHANGED <<initPc, library, storageReady, index, libVars, closed, nextKey,
                   datDirExists, onDisk, callVars, updates, now, nextArchive>>

\* checkOwned that caches a writable archive without writing its entry.
ScanReadyWithoutEntry(a) ==
    /\ initPc = "scan" /\ Has(tasks, a) /\ tasks[a].pc = "ready"
    /\ \/ /\ writable(a)
          /\ archives' = Put(archives, a, NewArchive(nextArchive, a, tasks[a].dat))
          /\ nextArchive' = nextArchive + 1
          /\ SetTask(a, [tasks[a] EXCEPT !.pc = "done", !.archive = nextArchive])
          /\ UNCHANGED <<dats, closed>>
       \/ /\ ~writable(a)
          /\ DatClose(a, tasks[a].dat)
          /\ SetTask(a, [tasks[a] EXCEPT !.pc = "done"])
          /\ UNCHANGED <<archives, nextArchive>>
       \/ /\ SetTask(a, [tasks[a] EXCEPT !.pc = "done", !.failed = TRUE])
          /\ UNCHANGED <<archives, nextArchive, dats, closed>>
    /\ UNCHANGED <<initPc, library, storageReady, index, archiveUsage, updates,
                   nextDat, nextKey, datDirExists, onDisk, callVars, now>>

\* checkOwned that leaves an archive it does not own open.
ScanReadyWithoutClose(a) ==
    /\ initPc = "scan" /\ Has(tasks, a) /\ tasks[a].pc = "ready"
    /\ \/ /\ writable(a)
          /\ LET archive == NewArchive(nextArchive, a, tasks[a].dat) IN
             /\ updateLibraryEntry(archive)
             /\ archives' = Put(archives, a, archive)
             /\ nextArchive' = nextArchive + 1
          /\ SetTask(a, [tasks[a] EXCEPT !.pc = "done", !.archive = nextArchive])
       \/ /\ ~writable(a)
          /\ SetTask(a, [tasks[a] EXCEPT !.pc = "done"])
          /\ UNCHANGED <<archives, updates, nextArchive>>
       \/ /\ SetTask(a, [tasks[a] EXCEPT !.pc = "done", !.failed = TRUE])
          /\ UNCHANGED <<archives, updates, nextArchive>>
    /\ UNCHANGED <<initPc, library, storageReady, index, archiveUsage, dats, closed,
                   nextDat, nextKey, datDirExists, onDisk, callVars, now>>

\* checkOwned, `await dat.ready` settles: a writable archive is registered,
\* another is closed; a rejection is swallowed by the empty catch.
ScanReady(a) ==
    /\ initPc = "scan" /\ Has(tasks, a) /\ tasks[a].pc = "ready"
    /\ \/ /\ writable(a)
          /\ LET archive == NewArchive(nextArchive, a, tasks[a].dat) IN
             /\ updateLibraryEntry(archive)
             /\ archives' = Put(archives, a, archive)
             /\ nextArchive' = nextArchive + 1
          /\ SetTask(a, [tasks[a] EXCEPT !.pc = "done", !.archive = nextArchive])
          /\ UNCHANGED <<dats, closed>>
       \/ /\ ~writable(a)
          /\ DatClose(a, tasks[a].dat)
          /\ SetTask(a, [tasks[a] EXCEPT !.pc = "done"])
          /\ UNCHANGED <<archives, updates, nextArchive>>
       \/ /\ SetTask(a, [tasks[a] EXCEPT !.pc = "done", !.failed = TRUE])
          /\ UNCHANGED <<archives, updates, nextArchive, dats, closed>>
    /\ UNCHANGED <<initPc, library, storageReady, index, archiveUsage,
                   nextDat, nextKey, datDirExists, onDisk, callVars, now>>

\* loadLibrary, `await dns.resolveName(url)` settles.
LoadResolve(u) ==
    /\ initPc = "load" /\ Has(tasks, u) /\ tasks[u].pc = "resolve"
    /\ IF resolveName(u) = NoAddr
       THEN SetTask(u, [tasks[u] EXCEPT !.pc = "prune", !.failed = TRUE])
       ELSE SetTask(u, [tasks[u] EXCEPT !.pc = "open", !.host = resolveName(u)])
    /\ UNCHANGED <<initPc, library, storageReady, index, libVars, engineVars,
                   datDirExists, onDisk, callVars, updates, now, nextArchive>>

\* loadLibrary, `await this.node.getDat(address)` settles.
LoadOpen(u) ==
    /\ initPc = "load" /\ Has(tasks, u) /\ tasks[u].pc = "open"
    /\ \/ /\ GetDatOk(tasks[u].host)
          /\ SetTask(u, [tasks[u] EXCEPT !.pc = "ready", !.dat = DatFor(tasks[u].host)])
       \/ /\ GetDatFail(tasks[u].host)
          /\ SetTask(u, [tasks[u] EXCEPT !.pc = "prune", !.failed = TRUE])
    /\ UNCHANGED <<initPc, library, storageReady, index, libVars, closed, nextKey,
                   datDirExists, onDisk, callVars, updates, now, nextArchive>>

\* loadLibrary, `await dat.ready` settles: the archive goes into this.archives.
LoadReady(u) ==
    /\ initPc = "load" /\ Has(tasks, u) /\ tasks[u].pc = "ready"
    /\ \/ /\ archives' = Put(archives, tasks[u].host,
                             NewArchive(nextArchive, tasks[u].host, tasks[u].dat))
          /\ nextArchive' = nextArchive + 1
          /\ SetTask(u, [tasks[u] EXCEPT !.pc = "done", !.archive = nextArchive])
       \/ /\ SetTask(u, [tasks[u] EXCEPT !.pc = "prune", !.failed = TRUE])
          /\ UNCHANGED <<archives, nextArchive>>
    /\ UNCHANGED <<initPc, library, storageReady, index, archiveUsage, engineVars,
                   datDirExists, onDisk, callVars, updates, now>>

\* A catch in loadLibrary that removes nothing.
LoadPruneKeepsRecord(u) ==
    /\ initPc = "load" /\ Has(tasks, u) /\ tasks[u].pc = "prune"
    /\ SetTask(u, [tasks[u] EXCEPT !.pc = "done"])
    /\ UNCHANGED <<initPc, library, storageReady, index, libVars, engineVars,
                   datDirExists, onDisk, callVars, updates, now, nextArchive>>

\* loadLibrary's catch, `await storage.removeItem(url)` settles.
LoadPrune(u) ==
    /\ initPc = "load" /\ Has(tasks, u) /\ tasks[u].pc = "prune"
    /\ index' = Del(index, u)
    /\ SetTask(u, [tasks[u] EXCEPT !.pc = "done"])
    /\ UNCHANGED <<initPc, library, storageReady, libVars, engineVars,
                   datDirExists, onDisk, callVars, updates, now, nextArchive>>

\* Promise.all settles once every promise has: init() returns.
InitFinish ==
    /\ initPc \in {"scan", "load"}
    /\ \A k \in DOMAIN tasks : tasks[k].pc = "done"
    /\ initPc' = "done"
    /\ UNCHANGED <<library, tasks, storageReady, index, libVars, engineVars,
                   datDirExists, onDisk, callVars, updates, now, nextArchive>>

InitNext ==
    \/ InitStart \/ InitMigrate \/ InitStorage \/ InitList \/ InitReaddir
    \/ \E a \in Addresses : ScanOpen(a) \/ ScanReady(a)
    \/ \E u \in KnownUrls : LoadResolve(u) \/ LoadOpen(u) \/ LoadReady(u) \/ LoadPrune(u)
    \/ InitFinish

\* ------------------------------------------------------ the Registry API
Ops == {"getArchive", "createArchive", "forkArchive", "close", "remove"}

FirstPc(op) ==
    CASE op = "remove" -> "getItem"
      [] op = "createArchive" -> "create"
      [] OTHER -> "resolve"

\* The frame of a call at its first await. `fresh`: when the call was made
\* neither the registry nor the engine had the address. prevArchive/prevUsed: what the
\* getArchive that returned just before this one returned, for the same address.
NewCall(op, u) ==
    LET a == resolveName(u)
        follows == op = "getArchive" /\ a # NoAddr /\ ret.op = "getArchive"
                   /\ ret.ok /\ ret.host = a
    IN [op |-> op, url |-> u, pc |-> FirstPc(op), host |-> NoAddr, dat |-> 0,
        archive |-> 0, key |-> NoAddr, rec |-> {},
        fresh |-> (a # NoAddr /\ ~Has(archives, a) /\ ~Has(dats, a)),
        prevArchive |-> IF follows THEN ret.archive ELSE 0,
        prevUsed |-> IF follows THEN ret.used ELSE -1]

\* A caller makes a call, one of at most `limit`; `when` is what the caller
\* waits for before it does.
IssueWhen(limit, when, op, u) ==
    /\ when
    /\ issued < limit
    /\ issued' = issued + 1
    /\ calls' = Put(calls, issued + 1, NewCall(op, u))
    /\ UNCHANGED <<initVars, index, libVars, engineVars, datDirExists, onDisk,
                   ret, updates, now, nextArchive>>

\* Callers await init() before they call (the caller's side of the contract).
Issue(op, u) == IssueWhen(MaxCalls, initPc = "done", op, u)

RetOf(c, ok, err) ==
    [op |-> c.op, url |-> c.url, host |-> c.host, ok |-> ok,
     err |-> err, archive |-> 0, used |-> -1, rec |-> {}, out |-> NoAddr,
     had |-> FALSE, again |-> FALSE,
     prevArchive |-> c.prevArchive, prevUsed |-> c.prevUsed]

\* The call's promise rejects with err.
Throw(i, err) ==
    /\ calls' = Del(calls, i)
    /\ ret' = RetOf(calls[i], FALSE, err)

\* Date.now(): never less than the last value read.
DateNow(t) == t \in {now, now + 1} /\ t <= MaxClock /\ now' = t

\* getArchive after `await dns.resolveName(url)`: a cached archive is returned
\* with its usage stamped, else createTempArchive starts (ensureCacheDir).
GetResolve(i) ==
    /\ Has(calls, i) /\ calls[i].op = "getArchive" /\ calls[i].pc = "resolve"
    /\ LET c == calls[i]
           host == resolveName(c.url)
       IN IF host = NoAddr
          THEN Throw(i, "resolve") /\ UNCHANGED <<archiveUsage, now>>
          ELSE IF Has(archives, host)
          THEN \E t \in 0..MaxClock :
                  /\ DateNow(t)
                  /\ archiveUsage' = Put(archiveUsage, host, t)
                  /\ calls' = Del(calls, i)
                  /\ ret' = [RetOf(c, TRUE, "none") EXCEPT
                               !.host = host, !.archive = archives[host].id, !.used = t]
          ELSE /\ calls' = [calls EXCEPT ![i] = [c EXCEPT !.pc = "open", !.host = host]]
               /\ UNCHANGED <<ret, archiveUsage, now>>
    /\ UNCHANGED <<initVars, index, archives, engineVars, datDirExists, onDisk,
                   issued, updates, nextArchive>>

\* createTempArchive: ensureCacheDir has made this.datDir and
\* `await this.node.getDat(address)` settles.
GetOpen(i) ==
    /\ Has(calls, i) /\ calls[i].op = "getArchive" /\ calls[i].pc = "open"
    /\ datDirExists' = TRUE
    /\ LET c == calls[i] IN
       \/ /\ GetDatOk(c.host)
          /\ calls' = [calls EXCEPT ![i] = [c EXCEPT !.pc = "ready", !.dat = DatFor(c.host)]]
          /\ UNCHANGED ret
       \/ /\ GetDatFail(c.host)
          /\ Throw(i, "open")
    /\ UNCHANGED <<initVars, index, libVars, closed, nextKey, onDisk,
                   issued, updates, now, nextArchive>>

\* getArchive that starts an entry write for the archive it constructs.
GetReadyPersists(i) ==
    /\ Has(calls, i) /\ calls[i].op = "getArchive" /\ calls[i].pc = "ready"
    /\ LET c == calls[i] IN
       \/ \E t \in 0..MaxClock :
            /\ DateNow(t)
            /\ archives' = Put(archives, c.host, NewArchive(nextArchive, c.host, c.dat))
            /\ updateLibraryEntry(NewArchive(nextArchive, c.host, c.dat))
            /\ nextArchive' = nextArchive + 1
            /\ archiveUsage' = Put(archiveUsage, c.host, t)
            /\ calls' = Del(calls, i)
            /\ ret' = [RetOf(c, TRUE, "none") EXCEPT !.archive = nextArchive, !.used = t]
       \/ /\ Throw(i, "ready")
          /\ UNCHANGED <<archives, archiveUsage, nextArchive, now, updates>>
    /\ UNCHANGED <<initVars, index, engineVars, datDirExists, onDisk, issued>>

\* createTempArchive's `await dat.ready` settles; back in getArchive the new
\* archive is stored, the usage stamped and the stored archive returned.
GetReady(i) ==
    /\ Has(calls, i) /\ calls[i].op = "getArchive" /\ calls[i].pc = "ready"
    /\ LET c == calls[i] IN
       \/ \E t \in 0..MaxClock :
            /\ DateNow(t)
            /\ archives' = Put(archives, c.host, NewArchive(nextArchive, c.host, c.dat))
            /\ nextArchive' = nextArchive + 1
            /\ archiveUsage' = Put(archiveUsage, c.host, t)
            /\ calls' = Del(calls, i)
            /\ ret' = [RetOf(c, TRUE, "none") EXCEPT !.archive = nextArchive, !.used = t]
       \/ /\ Throw(i, "ready")
          /\ UNCHANGED <<archives, archiveUsage, nextArchive, now>>
    /\ UNCHANGED <<initVars, index, engineVars, datDirExists, onDisk, issued, updates>>

\* close() that forgets the usage map.
CloseBodyKeepsUsage(host) ==
    /\ IF Has(dats, host)
       THEN DatClose(host, dats[host])
       ELSE UNCHANGED <<dats, closed>>
    /\ archives' = Del(archives, host)
    /\ UNCHANGED archiveUsage

\* The body of close() after its resolveName, for address host: the engine's
\* dat, if it has one, is closed; both maps drop the address.
CloseBody(host) ==
    /\ IF Has(dats, host)
       THEN DatClose(host, dats[host])
       ELSE UNCHANGED <<dats, closed>>
    /\ archives' = Del(archives, host)
    /\ archiveUsage' = Del(archiveUsage, host)

\* Frames of getArchive calls for host forget the earlier return: a close
\* came in between.
Forget(host, fr) ==
    [j \in DOMAIN fr |->
        IF fr[j].op = "getArchive" /\ resolveName(fr[j].url) = host
        THEN [fr[j] EXCEPT !.prevArchive = 0, !.prevUsed = -1]
        ELSE fr[j]]

\* close(url) after `await dns.resolveName(url)`.
Close(i) ==
    /\ Has(calls, i) /\ calls[i].op = "close" /\ calls[i].pc = "resolve"
    /\ LET c == calls[i]
           host == resolveName(c.url)
       IN IF host = NoAddr
          THEN Throw(i, "resolve") /\ UNCHANGED <<archives, archiveUsage, dats, closed>>
          ELSE /\ CloseBody(host)
               /\ calls' = Forget(host, Del(calls, i))
               /\ ret' = [RetOf(c, TRUE, "none") EXCEPT
                            !.host = host,
                            !.had = Has(archives, host),
                            !.again = (ret.op = "close" /\ ret.ok /\ ret.host = host /\ ret.had)]
    /\ UNCHANGED <<initVars, index, nextDat, nextKey, datDirExists, onDisk,
                   issued, updates, now, nextArchive>>

\* remove() that does not look at what getItem returned.
RemoveGetItemUnchecked(i) ==
    /\ Has(calls, i) /\ calls[i].op = "remove" /\ calls[i].pc = "getItem"
    /\ calls' = [calls EXCEPT ![i] = [calls[i] EXCEPT !.pc = "close"]]
    /\ UNCHANGED <<initVars, index, libVars, engineVars, datDirExists, onDisk,
                   issued, ret, updates, now, nextArchive>>

\* remove(url) after `await this.ready` and `await storage.getItem(url)`:
\* without a record it throws, with one it calls close(url).
RemoveGetItem(i) ==
    /\ Has(calls, i) /\ calls[i].op = "remove" /\ calls[i].pc = "getItem"
    /\ LET c == calls[i] IN
       IF ~storageReady
       THEN Throw(i, "storage")
       ELSE IF ~Has(index, c.url)
       THEN Throw(i, "Archive not in library")
       ELSE /\ calls' = [calls EXCEPT ![i] = [c EXCEPT !.pc = "close", !.rec = {index[c.url]}]]
            /\ UNCHANGED ret
    /\ UNCHANGED <<initVars, index, libVars, engineVars, datDirExists, onDisk,
                   issued, updates, now, nextArchive>>

\* remove() that goes on to delete the record when close(url) has failed.
RemoveCloseSwallows(i) ==
    /\ Has(calls, i) /\ calls[i].op = "remove" /\ calls[i].pc = "close"
    /\ LET c == calls[i]
           host == resolveName(c.url)
       IN IF host = NoAddr
          THEN /\ calls' = [calls EXCEPT ![i] = [c EXCEPT !.pc = "removeItem"]]
               /\ UNCHANGED <<ret, archives, archiveUsage, dats, closed>>
          ELSE /\ CloseBody(host)
               /\ calls' = Forget(host, [calls EXCEPT ![i] =
                                           [c EXCEPT !.pc = "removeItem", !.host = host]])
               /\ UNCHANGED ret
    /\ UNCHANGED <<initVars, index, nextDat, nextKey, datDirExists, onDisk,
                   issued, updates, now, nextArchive>>

\* remove's `await this.close(url)`: close's resolveName settles and close
\* runs to its end; storage.removeItem is called.
RemoveClose(i) ==
    /\ Has(calls, i) /\ calls[i].op = "remove" /\ calls[i].pc = "close"
    /\ LET c == calls[i]
           host == resolveName(c.url)
       IN IF host = NoAddr
          THEN Throw(i, "resolve") /\ UNCHANGED <<archives, archiveUsage, dats, closed>>
          ELSE /\ CloseBody(host)
               /\ calls' = Forget(host, [calls EXCEPT ![i] =
                                           [c EXCEPT !.pc = "removeItem", !.host = host]])
               /\ UNCHANGED ret
    /\ UNCHANGED <<initVars, index, nextDat, nextKey, datDirExists, onDisk,
                   issued, updates, now, nextArchive>>

\* remove() that returns without deleting the record.
RemoveItemKeepsRecord(i) ==
    /\ Has(calls, i) /\ calls[i].op = "remove" /\ calls[i].pc = "removeItem"
    /\ calls' = Del(calls, i)
    /\ ret' = [RetOf(calls[i], TRUE, "none") EXCEPT !.rec = calls[i].rec]
    /\ UNCHANGED <<initVars, index, libVars, engineVars, datDirExists, onDisk,
                   issued, updates, now, nextArchive>>

\* remove's `await storage.removeItem(url)` settles: the record read at the
\* start is returned.
RemoveItem(i) ==
    /\ Has(calls, i) /\ calls[i].op = "remove" /\ calls[i].pc = "removeItem"
    /\ index' = Del(index, calls[i].url)
    /\ calls' = Del(calls, i)
    /\ ret' = [RetOf(calls[i], TRUE, "none") EXCEPT !.rec = calls[i].rec]
    /\ UNCHANGED <<initVars, libVars, engineVars, datDirExists, onDisk,
                   issued, updates, now, nextArchive>>

\* createArchive, `await create(this.node, datOpts, opts)` settles: the engine
\* has made a dat under a new key; resolveName(archive.url) is called.
CreateDone(i) ==
    /\ Has(calls, i) /\ calls[i].op = "createArchive" /\ calls[i].pc = "create"
    /\ LET c == calls[i] IN
       \/ /\ nextKey \in DOMAIN NewKeys
          /\ dats' = Put(dats, NewKeys[nextKey], nextDat)
          /\ nextDat' = nextDat + 1
          /\ nextKey' = nextKey + 1
          /\ nextArchive' = nextArchive + 1
          /\ calls' = [calls EXCEPT ![i] = [c EXCEPT !.pc = "resolve",
                          !.key = NewKeys[nextKey], !.dat = nextDat, !.archive = nextArchive]]
          /\ UNCHANGED ret
       \/ /\ Throw(i, "create")
          /\ UNCHANGED <<dats, nextDat, nextKey, nextArchive>>
    /\ UNCHANGED <<initVars, index, libVars, closed, datDirExists, onDisk,
                   issued, updates, now>>

\* createArchive that awaits the entry write it starts before it returns.
CreateResolveAwaitsWrite(i) ==
    /\ Has(calls, i) /\ calls[i].op = "createArchive" /\ calls[i].pc = "resolve"
    /\ LET c == calls[i]
           archive == NewArchive(c.archive, c.key, c.dat)
       IN \/ /\ Throw(i, "resolve")
             /\ UNCHANGED <<archives, updates>>
          \/ /\ resolveName(DatUrl(c.key)) # NoAddr
             /\ archives' = Put(archives, Undefined, archive)
             /\ updateLibraryEntry(archive)
             /\ calls' = [calls EXCEPT ![i] = [c EXCEPT !.pc = "write"]]
             /\ UNCHANGED ret
    /\ UNCHANGED <<initVars, index, archiveUsage, engineVars, datDirExists, onDisk,
                   issued, now, nextArchive>>

\* createArchive, `const { host } = await dns.resolveName(archive.url)`
\* settles. A rejection is thrown on. Else resolveName gives the address
\* string, which has no `host` property, so host is undefined; the archive is
\* stored under it, the entry write is started and the URL returned.
CreateResolve(i) ==
    /\ Has(calls, i) /\ calls[i].op = "createArchive" /\ calls[i].pc = "resolve"
    /\ LET c == calls[i]
           archive == NewArchive(c.archive, c.key, c.dat)
       IN \/ /\ Throw(i, "resolve")
             /\ UNCHANGED <<archives, updates>>
          \/ /\ resolveName(DatUrl(c.key)) # NoAddr
             /\ archives' = Put(archives, Undefined, archive)
             /\ updateLibraryEntry(archive)
             /\ calls' = Del(calls, i)
             /\ ret' = [RetOf(c, TRUE, "none") EXCEPT
                          !.host = Undefined, !.archive = c.archive, !.out = DatUrl(c.key)]
    /\ UNCHANGED <<initVars, index, archiveUsage, engineVars, datDirExists, onDisk,
                   issued, now, nextArchive>>

\* forkArchive after `await dns.resolveName(srcArchiveUrl)`: getDat is called.
ForkResolve(i) ==
    /\ Has(calls, i) /\ calls[i].op = "forkArchive" /\ calls[i].pc = "resolve"
    /\ LET c == calls[i]
           host == resolveName(c.url)
       IN IF host = NoAddr
          THEN Throw(i, "resolve")
          ELSE /\ calls' = [calls EXCEPT ![i] = [c EXCEPT !.pc = "open", !.host = host]]
               /\ UNCHANGED ret
    /\ UNCHANGED <<initVars, index, libVars, engineVars, datDirExists, onDisk,
                   issued, updates, now, nextArchive>>

\* forkArchive, `await this.node.getDat(srcAddress)` settles: fork is called.
ForkOpen(i) ==
    /\ Has(calls, i) /\ calls[i].op = "forkArchive" /\ calls[i].pc = "open"
    /\ LET c == calls[i] IN
       \/ /\ GetDatOk(c.host)
          /\ calls' = [calls EXCEPT ![i] = [c EXCEPT !.pc = "fork", !.dat = DatFor(c.host)]]
          /\ UNCHANGED ret
       \/ /\ GetDatFail(c.host)
          /\ Throw(i, "open")
    /\ UNCHANGED <<initVars, index, libVars, closed, nextKey, datDirExists, onDisk,
                   issued, updates, now, nextArchive>>

\* forkArchive, `await fork(this.node, srcDat.drive, datOpts, opts)` settles:
\* the entry write for the new archive is started and its URL returned.
ForkDone(i) ==
    /\ Has(calls, i) /\ calls[i].op = "forkArchive" /\ calls[i].pc = "fork"
    /\ LET c == calls[i] IN
       \/ /\ nextKey \in DOMAIN NewKeys
          /\ dats' = Put(dats, NewKeys[nextKey], nextDat)
          /\ nextDat' = nextDat + 1
          /\ nextKey' = nextKey + 1
          /\ nextArchive' = nextArchive + 1
          /\ updateLibraryEntry(NewArchive(nextArchive, NewKeys[nextKey], nextDat))
          /\ calls' = Del(calls, i)
          /\ ret' = [RetOf(c, TRUE, "none") EXCEPT
                       !.archive = nextArchive, !.out = DatUrl(NewKeys[nextKey])]
       \/ /\ Throw(i, "fork")
          /\ UNCHANGED <<dats, nextDat, nextKey, nextArchive, updates>>
    /\ UNCHANGED <<initVars, index, libVars, closed, datDirExists, onDisk,
                   issued, now>>

\* updateLibraryEntry: archive.getInfo() settles; its `then` calls
\* storage.setItem, a rejection is dropped.
UpdateInfo(n) ==
    /\ Has(updates, n) /\ updates[n].pc = "info"
    /\ \E p \in {"write", "failed"} : updates' = [updates EXCEPT ![n].pc = p]
    /\ UNCHANGED <<initVars, index, libVars, engineVars, datDirExists, onDisk,
                   callVars, now, nextArchive>>

\* updateLibraryEntry: storage.setItem(archive.url, {...}) settles.
UpdateWrite(n) ==
    /\ Has(updates, n) /\ updates[n].pc = "write"
    /\ \/ /\ storageReady
          /\ index' = Put(index, DatUrl(updates[n].archive.key),
                          LibraryEntry(updates[n].archive))
          /\ updates' = [updates EXCEPT ![n].pc = "done"]
       \/ /\ updates' = [updates EXCEPT ![n].pc = "failed"]
          /\ UNCHANGED index
    /\ UNCHANGED <<initVars, libVars, engineVars, datDirExists, onDisk,
                   callVars, now, nextArchive>>

\* ------------------------------------------------------- specifications
CallIds == 1..(MaxCalls + 1)
ArchiveIds == 1..(MaxCalls + Cardinality(KnownUrls) + 1)

Steps ==
    \/ \E i \in CallIds :
          \/ GetResolve(i) \/ GetOpen(i) \/ GetReady(i)
          \/ Close(i)
          \/ RemoveGetItem(i) \/ RemoveClose(i) \/ RemoveItem(i)
          \/ CreateDone(i) \/ CreateResolve(i)
          \/ ForkResolve(i) \/ ForkOpen(i) \/ ForkDone(i)
    \/ \E n \in ArchiveIds : UpdateInfo(n) \/ UpdateWrite(n)

Calls ==
    \/ \E u \in KnownUrls, op \in Ops \ {"createArchive"} : Issue(op, u)
    \/ Issue("createArchive", NoAddr)

Next == InitNext \/ Calls \/ Steps

Spec == Init /\ [][Next]_vars

\* The registry under callers that only read archives: one more getArchive
\* than MaxCalls, so that a call can follow a return while another is pending.
GetCalls == \E u \in KnownUrls : IssueWhen(MaxCalls + 1, initPc = "done", "getArchive", u)

GetSteps ==
    \/ \E i \in CallIds : GetResolve(i) \/ GetOpen(i) \/ GetReady(i)
    \/ \E n \in ArchiveIds : UpdateInfo(n) \/ UpdateWrite(n)

GetNext == InitNext \/ GetCalls \/ GetSteps

GetSpec == Init /\ [][GetNext]_vars

\* Every await settles: the event loop runs each continuation that is due.
FairSpec == Spec /\ WF_vars(InitNext \/ Steps)

\* Callers that do not await init(): a call is made at any time, also while
\* init() is running or after it failed.
EarlyCalls ==
    \/ \E u \in KnownUrls, op \in Ops \ {"createArchive"} :
          IssueWhen(MaxEarly, TRUE, op, u)
    \/ IssueWhen(MaxEarly, TRUE, "createArchive", NoAddr)

EarlyNext == InitNext \/ EarlyCalls \/ Steps

EarlySpec == Init /\ [][EarlyNext]_vars

\* ----------------------------------------------------------------- claims
\* Frames of getArchive calls for address a whose engine open has settled.
Opened(a) ==
    {i \in DOMAIN calls : calls[i].op = "getArchive" /\ calls[i].host = a
                          /\ calls[i].pc = "ready"}

\* C1: of the getArchive calls in flight together for an address that neither
\* the registry nor the engine had when they were made, only one gets as far
\* as an engine open: N concurrent calls make one open call, not N.
C1_OneOpenForConcurrentGets ==
    \A a \in Addresses :
        Cardinality({i \in Opened(a) : calls[i].fresh}) <= 1

\* C2: at most one live archive object per address: no step replaces the
\* archive cached for an address by another one of the same address while the
\* first one's dat is still open.
C2_OneLiveHandlePerAddress ==
    [][\A k \in DOMAIN archives :
          (Has(archives', k) /\ archives'[k].id # archives[k].id
           /\ archives'[k].key = archives[k].key)
          => archives[k].dat \in closed]_vars

\* C3: a getArchive made after another getArchive for the same address has
\* returned, with no close or remove of the address in between, returns the
\* same archive object, and the usage it stamps is not less than the first's.
C3_SameHandleInSequence ==
    (ret.op = "getArchive" /\ ret.ok /\ ret.prevArchive # 0)
    => (ret.archive = ret.prevArchive /\ ret.used >= ret.prevUsed)

\* Call i is in flight as op at pc.
At(i, op, pc) == Has(calls, i) /\ calls[i].op = op /\ calls[i].pc = pc
\* Call i settles in this step.
Settles(i) == Has(calls, i) /\ ~Has(calls', i)
\* The addresses getOpenArchives() lists.
Listed(arch, usage) == {e.host : e \in OpenArchives(arch, usage)}

\* C4: when close(u) returns for a u that resolves, it has succeeded and
\* getOpenArchives() does not list the address nor has the usage map an entry
\* for it, whether or not an archive was cached; a close that finds nothing for
\* the address (as a second close does) changes nothing.
C4_CloseIdempotent ==
    [][\A i \in DOMAIN calls :
          (At(i, "close", "resolve") /\ Settles(i) /\ resolveName(calls[i].url) # NoAddr)
          => LET host == resolveName(calls[i].url) IN
             /\ ret'.op = "close" /\ ret'.ok
             /\ host \notin Listed(archives', archiveUsage')
             /\ ~Has(archiveUsage', host)
             /\ (~Has(archives, host) /\ ~Has(archiveUsage, host) /\ ~Has(dats, host))
                => UNCHANGED <<archives, archiveUsage, dats, closed, index>>]_vars

\* A second close of an address has returned right after a first one that had
\* found an archive cached for it.
C4_Witness == ret.op = "close" /\ ret.ok /\ ret.again /\ ~ret.had

\* C5 as stated: when remove(u) returns, it returns the record stored under
\* u, the index has no record for u, no dat is open for the address and
\* neither map has an entry for it.
C5_RemoveLeavesNothing ==
    [][\A i \in DOMAIN calls :
          (At(i, "remove", "removeItem") /\ Settles(i))
          => /\ ret'.ok /\ ret'.rec = calls[i].rec
             /\ ~Has(index', calls[i].url)
             /\ ~Has(dats', calls[i].host)
             /\ ~Has(archives', calls[i].host)
             /\ ~Has(archiveUsage', calls[i].host)]_vars

\* C5 as amended: remove(u) reads the record stored under u; when its close
\* completes, the dat the engine had for the address is closed and neither
\* map has an entry for the address; when it returns, it returns the record
\* it read and the index has no record for u.
C5_RemoveClosesThenDeletes ==
    [][\A i \in DOMAIN calls :
          /\ (At(i, "remove", "getItem") /\ Has(calls', i) /\ calls'[i] # calls[i])
             => (Has(index, calls[i].url) /\ calls'[i].rec = {index[calls[i].url]})
          /\ (At(i, "remove", "close") /\ Has(calls', i) /\ calls'[i] # calls[i])
             => LET host == resolveName(calls[i].url) IN
                /\ calls'[i].host = host
                /\ Has(dats, host) => (dats[host] \in closed' /\ ~Has(dats', host))
                /\ ~Has(archives', host)
                /\ ~Has(archiveUsage', host)
          /\ (At(i, "remove", "removeItem") /\ Settles(i))
             => /\ ret'.op = "remove" /\ ret'.ok /\ ret'.rec = calls[i].rec
                /\ calls[i].rec # {}
                /\ ~Has(index', calls[i].url)]_vars

\* A remove has returned the record of an address that was cached when it
\* started its close, and the cache has an entry for the address again.
C5_Witness ==
    /\ ret.op = "remove" /\ ret.ok /\ ret.rec = {OldEntry(ret.url)}
    /\ ~Has(index, ret.url)
    /\ Has(archives, ret.host)

\* C6: remove(u) for a u without a record fails with 'Archive not in
\* library', and no step of it changes the index, either map or the engine.
C6_RemoveUnknownFails ==
    [][\A i \in CallIds :
          /\ (~Has(calls, i) /\ Has(calls', i) /\ calls'[i].op = "remove")
             => UNCHANGED <<index, archives, archiveUsage, dats, closed>>
          /\ (At(i, "remove", "getItem") /\ storageReady /\ ~Has(index, calls[i].url)
              /\ (~Has(calls', i) \/ calls'[i] # calls[i]))
             => /\ Settles(i)
                /\ ret'.op = "remove" /\ ~ret'.ok /\ ret'.err = "Archive not in library"
                /\ UNCHANGED <<index, archives, archiveUsage, dats, closed>>]_vars

\* A remove of a URL without a record has failed while an archive is cached
\* and open for the address the URL resolves to.
C6_Witness ==
    /\ ret.op = "remove" /\ ~ret.ok /\ ret.err = "Archive not in library"
    /\ resolveName(ret.url) # NoAddr
    /\ Has(archives, resolveName(ret.url))
    /\ Has(dats, resolveName(ret.url))

\* init() returns in this step.
InitCompletes == initPc # "done" /\ initPc' = "done"
\* The urls of the records listLibrary() returns from the given store.
ListedUrls(idx) == {idx[k].url : k \in DOMAIN idx}
\* Item k of init's loop ran to its end without an error.
Loaded(k) == Has(tasks, k) /\ tasks[k].pc = "done" /\ ~tasks[k].failed
\* The entry write started for the archive with key a was dropped.
WriteFailed(a) ==
    \E n \in DOMAIN updates : updates[n].archive.key = a /\ updates[n].pc = "failed"
\* The index holds the entry of the archive with key a, under its URL.
Recorded(a) ==
    /\ Has(index, DatUrl(a))
    /\ index[DatUrl(a)].url = DatUrl(a)
    /\ index[DatUrl(a)].dir = <<"dat1", a>>

C8_ScanRecordedAtCompletion ==
    [][\A a \in Addresses :
          (InitCompletes /\ library = {} /\ Loaded(a) /\ writable(a))
          => (Recorded(a)' /\ Has(archives', a))]_vars

\* C8 as amended: when init() completes on an empty index, the archive of
\* every directory entry that opened writable is cached under the entry's
\* name; its record is in the index later, once the entry write started for it
\* has run, unless that write is dropped.
C8_ScanRecordedEventually ==
    /\ [][\A a \in Addresses :
             (InitCompletes /\ library = {} /\ Loaded(a) /\ writable(a))
             => (Has(archives', a) /\ archives'[a].key = a)]_vars
    /\ \A a \in Addresses :
          (initPc = "scan" /\ Loaded(a) /\ writable(a))
          ~> (Recorded(a) \/ WriteFailed(a))

\* init() has completed on an empty index, the owned archive found on disk is
\* cached and its record is in the index.
C8_Witness ==
    /\ initPc = "done" /\ library = {} /\ Loaded(A1)
    /\ Has(archives, A1) /\ Recorded(A1) /\ Cardinality(DOMAIN index) = 1

\* C9: on an empty index, when init() completes a directory entry that opened
\* read-only has no record, no cached archive, and its dat is closed; an entry
\* whose open or readiness wait failed does not fail init(), and the writable
\* entries beside it are cached all the same; the scan never fails init() and
\* init() completes.
C9_ScanSkipsUnownedAndFailed ==
    /\ [][\A a \in Addresses :
             /\ (InitCompletes /\ library = {} /\ Loaded(a) /\ ~writable(a))
                => /\ ~Has(index', DatUrl(a))
                   /\ ~Has(archives', a)
                   /\ tasks[a].dat \in closed' /\ ~Has(dats', a)
             /\ (InitCompletes /\ library = {} /\ Loaded(a) /\ writable(a))
                => Has(archives', a)]_vars
    /\ [][initPc = "scan" => initPc' \in {"scan", "done"}]_vars
    /\ (initPc = "scan") ~> (initPc = "done")

\* init() has completed on an empty index with both directory entries: the
\* open of the owned one failed, the other opened read-only and is closed.
C9_Witness ==
    /\ initPc = "done" /\ library = {} /\ DOMAIN tasks = {A1, A2}
    /\ tasks[A1].failed /\ Loaded(A2)
    /\ tasks[A2].dat \in closed /\ ~Has(archives, A2) /\ ~Has(index, DatUrl(A2))

\* C10: after createArchive has returned the URL of its new archive, the
\* index comes to hold a record under that URL whose dir names the archive's
\* key, unless the getInfo or the setItem of its entry write fails.
C10_CreatedIsRecorded ==
    \A i \in 1..MaxCalls :
        (ret.op = "createArchive" /\ ret.ok /\ ret.out = DatUrl(NewKeys[i]))
        ~> (Recorded(NewKeys[i]) \/ WriteFailed(NewKeys[i]))

\* createArchive has returned a URL and the record is in the index under it.
C10_Witness ==
    /\ ret.op = "createArchive" /\ ret.ok
    /\ \E i \in DOMAIN NewKeys : ret.out = DatUrl(NewKeys[i]) /\ Recorded(NewKeys[i])

\* C11: every key of this.archives is the address of the archive stored
\* under it, and once createArchive has returned URL u the new archive is
\* cached under the address u resolves to (so that getArchive(u) finds it
\* and getOpenArchives() lists that address).
C11_CacheKeysAreAddresses ==
    /\ \A k \in DOMAIN archives : k = resolveName(DatUrl(archives[k].key))
    /\ (ret.op = "createArchive" /\ ret.ok)
       => /\ Has(archives, resolveName(ret.out))
          /\ archives[resolveName(ret.out)].id = ret.archive
          /\ resolveName(ret.out) \in Listed(archives, archiveUsage)

\* C12: a call made before init() has completed does nothing before init()
\* completes: until then no step of a call runs, except one that fails the
\* call with a not-initialized error and touches neither the index, the maps
\* nor the engine.
C12_CallsWaitForReady ==
    [][\A i \in DOMAIN calls :
          (initPc # "done" /\ (~Has(calls', i) \/ calls'[i] # calls[i]))
          => /\ Settles(i)
             /\ ~ret'.ok /\ ret'.err = "not initialized"
             /\ UNCHANGED <<index, archives, archiveUsage, dats, closed>>]_vars

\* Call i takes a step: its frame changes or it settles.
Moves(i) == Has(calls, i) /\ (~Has(calls', i) \/ calls'[i] # calls[i])
\* Call i is at the await of a name resolution that rejects.
ResolutionRejects(i) ==
    /\ Has(calls, i) /\ calls[i].op # "createArchive"
    /\ resolveName(calls[i].url) = NoAddr
    /\ calls[i].pc = (IF calls[i].op = "remove" THEN "close" ELSE "resolve")

\* C13: when the name resolution inside getArchive, createArchive,
\* forkArchive, close or remove rejects, the call fails with the resolution
\* error, and no step of the failed call changes this.archives,
\* this.archiveUsage or the index.
C13_ResolutionFailurePropagates ==
    [][\A i \in DOMAIN calls :
          /\ (ResolutionRejects(i) /\ Moves(i))
             => /\ Settles(i)
                /\ ret'.op = calls[i].op /\ ~ret'.ok /\ ret'.err = "resolve"
          /\ (Settles(i) /\ ret'.err = "resolve")
             => UNCHANGED <<archives, archiveUsage, index>>
          /\ (calls[i].op # "createArchive" /\ resolveName(calls[i].url) = NoAddr
              /\ Moves(i))
             => UNCHANGED <<archives, archiveUsage, index>>]_vars

\* A remove of a recorded URL that does not resolve has failed with the
\* resolution error, and the record is still in the index.
C13_Witness ==
    /\ ret.op = "remove" /\ ~ret.ok /\ ret.err = "resolve"
    /\ Has(index, ret.url)

\* C14: createArchive and forkArchive return without waiting for the entry
\* write they start: the step that starts it returns the new archive's URL
\* with the write still pending (and, for createArchive, the archive cached);
\* they fail only through their own awaits; and no step of an entry write,
\* failing or not, changes a call, what a call returned or the cache.
C14_WriteOutcomeIndependent ==
    [][/\ \A i \in DOMAIN calls :
             /\ (At(i, "createArchive", "resolve") /\ Moves(i))
                => /\ Settles(i) /\ ret'.op = "createArchive"
                   /\ ret'.ok
                      => /\ ret'.out = DatUrl(calls[i].key)
                         /\ Has(updates', ret'.archive)
                         /\ updates'[ret'.archive].pc = "info"
                         /\ \E k \in DOMAIN archives' :
                               archives'[k].id = ret'.archive
                   /\ ~ret'.ok => ret'.err = "resolve"
             /\ (At(i, "forkArchive", "fork") /\ Moves(i))
                => /\ Settles(i) /\ ret'.op = "forkArchive"
                   /\ ret'.ok
                      => /\ ret'.out # NoAddr
                         /\ Has(updates', ret'.archive)
                         /\ updates'[ret'.archive].pc = "info"
                   /\ ~ret'.ok => ret'.err = "fork"
       /\ \A n \in DOMAIN updates :
             updates'[n] # updates[n]
             => UNCHANGED <<calls, ret, archives, archiveUsage>>]_vars

\* createArchive has returned a URL, the entry write of its archive was
\* dropped, no record is stored under the URL and the archive is cached.
C14_Witness ==
    /\ ret.op = "createArchive" /\ ret.ok
    /\ Has(updates, ret.archive) /\ updates[ret.archive].pc = "failed"
    /\ ~Has(index, ret.out)
    /\ \E k \in DOMAIN archives : archives[k].id = ret.archive

\* C15: no step of a getArchive or close call, from the call to its return,
\* changes the index or starts an entry write, whether the archive was cached
\* or is constructed; the index changes only in loadLibrary's removeItem,
\* updateLibraryEntry's setItem and remove's removeItem. (getOpenArchives is
\* a function of this.archives and this.archiveUsage alone.)
C15_GetArchiveLeavesIndex ==
    [][/\ \A i \in CallIds :
             /\ (~Has(calls, i) /\ Has(calls', i)
                 /\ calls'[i].op \in {"getArchive", "close"})
                => UNCHANGED <<index, updates>>
             /\ (Has(calls, i) /\ calls[i].op \in {"getArchive", "close"} /\ Moves(i))
                => UNCHANGED <<index, updates>>
       /\ index' # index
          => \/ \E u \in KnownUrls : LoadPrune(u)
             \/ \E n \in ArchiveIds : UpdateWrite(n)
             \/ \E i \in CallIds : RemoveItem(i)]_vars

\* getArchive has constructed an archive, cached and returned it, and the
\* index is empty and no entry write was ever started.
C15_Witness ==
    /\ ret.op = "getArchive" /\ ret.ok
    /\ Has(archives, ret.host) /\ archives[ret.host].id = ret.archive
    /\ index = Empty /\ updates = Empty

\* C17: every archive in this.archives is around a dat the engine still has
\* open: its dat was not closed and is the one node.dats holds for its key.
C17_CachedHandlesAreOpen ==
    \A k \in DOMAIN archives :
        /\ archives[k].dat \notin closed
        /\ Has(dats, archives[k].key)
        /\ dats[archives[k].key] = archives[k].dat

\* C18: init() on an index with records never fails once the records are
\* being loaded, completes only when every record's promise has settled, and
\* at that moment every record that resolved, opened and became ready is
\* still in the index and the archive made for it is in this.archives under
\* the address its URL resolves to.
C18_LoadedRecordsKeptAndCached ==
    [][/\ initPc = "load" => initPc' \in {"load", "done"}
       /\ (InitCompletes /\ library # {})
          => \A u \in library :
                /\ Has(tasks, u) /\ tasks[u].pc = "done"
                /\ Loaded(u)
                   => /\ Has(index', u)
                      /\ Has(archives', resolveName(u))
                      /\ archives'[resolveName(u)].id = tasks[u].archive]_vars

\* C19: every entry getOpenArchives() returns has a defined lastUsed, also
\* for archives that init() or createArchive cached and that no getArchive
\* has returned yet.
C19_OpenArchivesHaveLastUsed ==
    \A e \in getOpenArchives : e.lastUsed # -1

\* C20: when forkArchive returns URL u, the new archive is in this.archives
\* under the address u resolves to, and the source's dat, if the engine has
\* it open, has an archive in this.archives under the source address: fork
\* leaves no dat open in the engine without a cache entry.
C20_ForkRegistersHandles ==
    [][\A i \in DOMAIN calls :
          (At(i, "forkArchive", "fork") /\ Settles(i) /\ ret'.ok)
          => /\ Has(archives', resolveName(ret'.out))
             /\ archives'[resolveName(ret'.out)].id = ret'.archive
             /\ (Has(dats', calls[i].host) /\ dats'[calls[i].host] = calls[i].dat)
                => /\ Has(archives', calls[i].host)
                   /\ archives'[calls[i].host].dat = calls[i].dat]_vars

====
